---- MODULE Spec2Model ----
(***************************************************************************)
(* A model of cnb.py (clone a new branch) and getconf.py (query the        *)
(* configuration).  Python strings are sequences of one-character strings, *)
(* so that str.replace, str.strip, str.split, re.split and the `in` test   *)
(* are computed as Python computes them.                                    *)
(***************************************************************************)
EXTENDS Integers, Sequences, FiniteSets

VARIABLES
    pc,             \* position of the running tool
    args,           \* argparse.Namespace of cnb: branch_no, dir_name, loose
    argv,           \* sys.argv[1:] of getconf
    home_dir,       \* os.path.expanduser("~")
    cfgfile,        \* the configuration file found in the home directory
    dirs,           \* the paths that exist as directories
    git_stdout,     \* what `git branch -a` prints in the clone
    parser,         \* the ConfigParser returned by get_config_file
    git_dir,        \* main's git_dir ('' until resolved)
    dir_path_name,  \* main's dir_path_name ('' until computed)
    target,         \* what is at dir_path: absent, file, dir_pre, dir_new, dir_cloned
    cwd,            \* the process's working directory
    match_branches, \* get_branch_name's match_branches
    opt_chr,        \* the options input_char accepts
    branch_name,    \* main's branch_name
    reads,          \* how many lines have been read from standard input
    reply,          \* the last line read from standard input
    prompts,        \* how many times input_char has shown its prompt
    log,            \* the steps and external operations attempted, in order, each
                    \* with whether it succeeded
    stdout,         \* the lines printed to standard output: getconf's output and
                    \* debug lines, cnb's completion message
    reason,         \* the message of the error that ended the run
    exit_val,       \* the exit code (NotExited while running)
    branch,         \* a raw line of the branch listing (normalisation)
    strip_prefix,   \* the strip prefix applied to it
    normalized      \* the normalised name, and its re-normalisation

vars == <<pc, args, argv, home_dir, cfgfile, dirs, git_stdout, parser, git_dir,
          dir_path_name, target, cwd, match_branches, opt_chr, branch_name,
          reads, reply, prompts, log, stdout, reason, exit_val, branch, strip_prefix,
          normalized>>

-----------------------------------------------------------------------------
(* Python string operations *)

\* sub in s
Contains(s, sub) ==
    Len(sub) <= Len(s) /\
    \E i \in 0..(Len(s) - Len(sub)) : SubSeq(s, i + 1, i + Len(sub)) = sub

\* s.find(c) for a one-character c: the 0-based index of its first occurrence, or -1
str_find(s, c) ==
    IF \E i \in 1..Len(s) : s[i] = c
    THEN (CHOOSE i \in 1..Len(s) : s[i] = c /\ \A j \in 1..(i - 1) : s[j] # c) - 1
    ELSE -1

\* s.replace(old, new): every non-overlapping occurrence, left to right
RECURSIVE str_replace(_, _, _)
str_replace(s, old, new) ==
    IF old = <<>>
    THEN IF s = <<>> THEN new
         ELSE new \o <<Head(s)>> \o str_replace(Tail(s), old, new)
    ELSE IF Len(s) < Len(old) THEN s
    ELSE IF SubSeq(s, 1, Len(old)) = old
    THEN new \o str_replace(SubSeq(s, Len(old) + 1, Len(s)), old, new)
    ELSE <<Head(s)>> \o str_replace(Tail(s), old, new)

Whitespace == {" ", "\t"}

RECURSIVE lstrip(_)
lstrip(s) == IF s # <<>> /\ Head(s) \in Whitespace THEN lstrip(Tail(s)) ELSE s

RECURSIVE rstrip(_)
rstrip(s) ==
    IF s # <<>> /\ s[Len(s)] \in Whitespace THEN rstrip(SubSeq(s, 1, Len(s) - 1)) ELSE s

\* s.strip()
str_strip(s) == rstrip(lstrip(s))

\* s.split(sep) for a one-character sep: the pieces between the separators, one more
\* piece than there are separators
str_split(s, sep) ==
    LET seps == {i \in 1..Len(s) : s[i] = sep}
        n == Cardinality(seps)
        at(k) == IF k = 0 THEN 0
                 ELSE IF k = n + 1 THEN Len(s) + 1
                 ELSE CHOOSE i \in seps : Cardinality({j \in seps : j < i}) = k - 1
    IN  [k \in 1..(n + 1) |-> SubSeq(s, at(k - 1) + 1, at(k) - 1)]

\* s.splitlines(): split at line ends, no empty last piece after a final line end
splitlines(s) ==
    IF s = <<>> THEN <<>>
    ELSE IF s[Len(s)] = "\n" THEN str_split(SubSeq(s, 1, Len(s) - 1), "\n")
    ELSE str_split(s, "\n")

\* "0123456789abcdefghijklmnopqrstuvwxyz"
opt_str ==
    <<"0", "1", "2", "3", "4", "5", "6", "7", "8", "9", "a", "b", "c", "d", "e", "f",
      "g", "h", "i", "j", "k", "l", "m", "n", "o", "p", "q", "r", "s", "t", "u", "v",
      "w", "x", "y", "z">>

\* the characters \w matches, among those the model's strings are made of
WordChars == {opt_str[i] : i \in 1..Len(opt_str)} \cup {"_"}

\* re.split(r'\W+', s): split at every run of non-word characters; a run at the start
\* or at the end leaves an empty piece there
RECURSIVE re_split_acc(_, _, _)
re_split_acc(s, cur, insep) ==
    IF s = <<>> THEN <<cur>>
    ELSE IF Head(s) \in WordChars THEN re_split_acc(Tail(s), Append(cur, Head(s)), FALSE)
    ELSE IF insep THEN re_split_acc(Tail(s), cur, TRUE)
    ELSE <<cur>> \o re_split_acc(Tail(s), <<>>, TRUE)

re_split_W(s) == re_split_acc(s, <<>>, FALSE)

\* re.search(pattern, s) for a pattern without metacharacters: a literal substring
re_search(pattern, s) == Contains(s, pattern)

\* every string over alphabet A of length at most n
StrUpTo(A, n) == UNION {[1..k -> A] : k \in 0..n}

-----------------------------------------------------------------------------
(* cnb.py: branch-name normalisation (get_branch_name, lines 319-327) *)

\* strip_prefix = 'DO NOT MATCH THIS!'
NO_STRIP_PREFIX ==
    <<"D", "O", " ", "N", "O", "T", " ", "M", "A", "T", "C", "H", " ", "T", "H", "I",
      "S", "!">>

\* prefix stands in s right after its first i characters
OccursAt(s, prefix, i) ==
    i + Len(prefix) <= Len(s) /\ SubSeq(s, i + 1, i + Len(prefix)) = prefix

\* s with the first occurrence of prefix removed (s itself when there is none)
remove_first(s, prefix) ==
    IF Contains(s, prefix)
    THEN LET at == CHOOSE i \in 0..Len(s) :
                       OccursAt(s, prefix, i) /\ \A j \in 0..(i - 1) : ~OccursAt(s, prefix, j)
         IN  SubSeq(s, 1, at) \o SubSeq(s, at + Len(prefix) + 1, Len(s))
    ELSE s

\* a mutant: only the first occurrence of the prefix is removed
normalize_branch_first_only(line, prefix) ==
    str_strip(remove_first(str_replace(line, <<"*">>, <<>>), prefix))

\* branch.replace("*", "").replace(strip_prefix, '').strip()
normalize_branch(line, prefix) ==
    str_strip(str_replace(str_replace(line, <<"*">>, <<>>), prefix, <<>>))

MaxLineLen == 5
MaxPrefixLen == 2

LineChars == {"*", " ", "a", "b"}
RawLines == StrUpTo(LineChars, MaxLineLen)
\* a configured value has no surrounding whitespace (ConfigParser trims it)
StripPrefixes ==
    {p \in StrUpTo({"a", "b", " "}, MaxPrefixLen) : str_strip(p) = p} \cup {NO_STRIP_PREFIX}

NoNormalize == branch = <<>> /\ strip_prefix = <<>> /\ normalized = <<>>

-----------------------------------------------------------------------------
(* The configuration: a ConfigParser is a function from section names to       *)
(* functions from option names to values.                                      *)

GIT_SECT == "git"
GIT_DIR == "dir"
GIT_REPO_DIR == "repo_dir"
GIT_REPO_URL == "repo_url"
GIT_PASS_BRANCHES == "pass_branches"
GIT_STRIP_PREFIX == "strip_prefix"
GIT_ACCEPT_RE_LIST == "accept_re_list"

\* parser.sections()
sections(p) == DOMAIN p

\* parser.has_option(sect, item)
has_option(p, sect, item) == sect \in DOMAIN p /\ item \in DOMAIN p[sect]

\* parser.get(sect, item) raises: no such section, no such option, or a value whose
\* '%' is not a valid interpolation (the model's values never hold "%%" or "%(")
get_raises(p, sect, item) == ~has_option(p, sect, item) \/ Contains(p[sect][item], <<"%">>)

\* parser.get(sect, item), when it does not raise
parser_get(p, sect, item) == p[sect][item]

\* an error: the message and the values it names
Error(msg, detail) == [msg |-> msg, detail |-> detail]
NoError == Error("", <<>>)

\* a line of output: a fixed text and the value printed with it
Line(msg, detail) == [msg |-> msg, detail |-> detail]

\* the outcome of a call: returned val, or raised err
Returned(val) == [ok |-> TRUE, val |-> val, err |-> NoError]
Raised(err) == [ok |-> FALSE, val |-> <<>>, err |-> err]

-----------------------------------------------------------------------------
(* Paths (pathlib on POSIX) *)

RECURSIVE join(_, _)
join(parts, sep) ==
    IF parts = <<>> THEN <<>>
    ELSE IF Len(parts) = 1 THEN parts[1]
    ELSE parts[1] \o sep \o join(Tail(parts), sep)

RECURSIVE path_parts(_)
path_parts(pieces) ==
    IF pieces = <<>> THEN <<>>
    ELSE IF Head(pieces) \in {<<>>, <<".">>} THEN path_parts(Tail(pieces))
    ELSE <<Head(pieces)>> \o path_parts(Tail(pieces))

\* str(Path(s)): empty and "." components dropped, so no doubled or trailing
\* slash; exactly two leading slashes are kept; the empty path is "."
path_str(s) ==
    LET root == IF Len(s) >= 1 /\ s[1] = "/"
                THEN IF Len(s) >= 2 /\ s[2] = "/" /\ ~(Len(s) >= 3 /\ s[3] = "/")
                     THEN <<"/", "/">> ELSE <<"/">>
                ELSE <<>>
        body == join(path_parts(str_split(s, "/")), <<"/">>)
    IN  IF root \o body = <<>> THEN <<".">> ELSE root \o body

\* str(Path(a, b)) for a relative b
path_join(a, b) == IF a = <<>> THEN path_str(b) ELSE path_str(a \o <<"/">> \o b)

\* Path(s).is_dir()
is_dir(s, ds) == path_str(s) \in ds

-----------------------------------------------------------------------------
(* cnb.py: get_git_dir (lines 212-254) *)

GIT == <<"g", "i", "t">>

\* a mutant: a configured directory that does not exist is an error at once
get_git_dir_no_fallback(home, p, ds) ==
    IF get_raises(p, GIT_SECT, GIT_DIR)
    THEN IF is_dir(path_join(home, GIT), ds) THEN Returned(path_join(home, GIT))
         ELSE Raised(Error("can't find any git directory - giving up", <<>>))
    ELSE LET conf == parser_get(p, GIT_SECT, GIT_DIR)
             full == IF Contains(conf, <<"~">>) THEN str_replace(conf, <<"~">>, home) ELSE conf
         IN  IF is_dir(full, ds) THEN Returned(path_str(full))
             ELSE Raised(Error("can't find any git directory - giving up", <<>>))

\* git_dir is None (<<>>) or a one-element sequence holding the string.
\* The try block: the configured directory, '~' replaced, kept when it exists
git_dir_from_config(home, p, ds) ==
    IF get_raises(p, GIT_SECT, GIT_DIR) THEN <<>>
    ELSE LET conf == parser_get(p, GIT_SECT, GIT_DIR)
             full == IF Contains(conf, <<"~">>)
                     THEN str_replace(conf, <<"~">>, home) ELSE conf
         IN  IF is_dir(full, ds) THEN <<path_str(full)>> ELSE <<>>

\* if not git_dir: the git subdirectory of the home directory, when it exists
git_dir_from_home(found, home, ds) ==
    IF found # <<>> THEN found
    ELSE IF is_dir(path_join(home, GIT), ds) THEN <<path_join(home, GIT)>>
    ELSE <<>>

\* if git_dir and not Path(git_dir).is_dir(): git_dir = None
git_dir_checked(found, ds) ==
    IF found # <<>> /\ ~is_dir(found[1], ds) THEN <<>> ELSE found

\* if git_dir == None: raise; return git_dir
git_dir_or_raise(found) ==
    IF found = <<>>
    THEN Raised(Error("can't find any git directory - giving up", <<>>))
    ELSE Returned(found[1])

get_git_dir(home, p, ds) ==
    git_dir_or_raise(
        git_dir_checked(git_dir_from_home(git_dir_from_config(home, p, ds), home, ds), ds))

\* what get_git_dir prints through debug_msg when debugging is on
get_git_dir_debug(home, p, ds) ==
    IF get_raises(p, GIT_SECT, GIT_DIR)
    THEN <<Line("Hmmm - can't get a git dir from the config file", <<>>)>>
    ELSE LET conf == parser_get(p, GIT_SECT, GIT_DIR)
             full == IF Contains(conf, <<"~">>) THEN str_replace(conf, <<"~">>, home) ELSE conf
         IN  IF is_dir(full, ds) THEN <<>>
             ELSE <<Line("We got git path from the config file, but it", full),
                    Line("doesn't exist, so we'll try for the default place.", <<>>)>>

-----------------------------------------------------------------------------
(* cnb.py: get_config_file and its validators (lines 150-209) *)

\* validate_config_file: the git section and its repo_dir and repo_url are needed
validate_config_file(p) ==
    IF GIT_SECT \notin sections(p)
    THEN Raised(Error("couldn't find a section in the config file", <<GIT_SECT>>))
    ELSE IF ~has_option(p, GIT_SECT, GIT_REPO_DIR)
    THEN Raised(Error("couldn't find the item in the config file's section", <<GIT_REPO_DIR>>))
    ELSE IF ~has_option(p, GIT_SECT, GIT_REPO_URL)
    THEN Raised(Error("couldn't find the item in the config file's section", <<GIT_REPO_URL>>))
    ELSE Returned(p)

\* validate_config_file_no_op, and getconf.py's validate_config_file
validate_config_file_no_op(p) == Returned(p)

\* get_config_file: cfg is the first of user.cfg and .user.cfg that is a file (kind
\* "missing" when neither is, "corrupt" when it cannot be parsed); validate tells
\* whether main's validator is applied
get_config_file(cfg, validate) ==
    IF cfg.kind # "ok"
    THEN Raised(Error("couldn't find, or couldn't parse, the config file", <<>>))
    ELSE IF validate THEN validate_config_file(cfg.sects)
    ELSE validate_config_file_no_op(cfg.sects)

get_config_file_debug(cfg) ==
    IF cfg.kind = "missing" THEN <<Line("No configuration file", <<>>)>>
    ELSE IF cfg.kind = "corrupt" THEN <<Line("Could not read", <<>>)>>
    ELSE <<>>

-----------------------------------------------------------------------------
(* cnb.py: input_char (lines 72-98) *)

\* a mutant: the length of the line is not checked, its first character decides
input_char_first_char(opt, line) ==
    IF Len(line) >= 1 THEN str_find(opt, line[1]) ELSE -1

\* what input_char does with one line read: the index it returns, or -1 when it
\* prompts again (an empty line, more than one character, a character not in opt)
input_char(opt, line) ==
    IF Len(line) = 1 THEN str_find(opt, line[1]) ELSE -1

-----------------------------------------------------------------------------
(* cnb.py: get_branch_name (lines 282-367) *)

MAIN == <<"m", "a", "i", "n">>
MASTER == <<"m", "a", "s", "t", "e", "r">>

\* a mutant: the configured pass_branches are ignored
passes_builtin_only(p) == <<MAIN, MASTER>>

\* passes: "main", "master" and the pieces of pass_branches; a failing lookup is passed over
passes(p) ==
    <<MAIN, MASTER>> \o
    (IF has_option(p, GIT_SECT, GIT_PASS_BRANCHES) /\ ~get_raises(p, GIT_SECT, GIT_PASS_BRANCHES)
     THEN re_split_W(parser_get(p, GIT_SECT, GIT_PASS_BRANCHES)) ELSE <<>>)

\* x in a list
InList(x, list) == \E i \in 1..Len(list) : list[i] = x

\* the strip prefix in force
strip_prefix_of(p) ==
    IF has_option(p, GIT_SECT, GIT_STRIP_PREFIX) THEN parser_get(p, GIT_SECT, GIT_STRIP_PREFIX)
    ELSE NO_STRIP_PREFIX

\* branches: the normalised lines of the listing
branches_of(out, p) ==
    LET lines == splitlines(out)
    IN  [i \in 1..Len(lines) |-> normalize_branch(lines[i], strip_prefix_of(p))]

\* [b for a_s in accept_strings if re.search(a_s, b)]: b once for every pattern it matches
RECURSIVE accepted_copies(_, _)
accepted_copies(b, accept_strings) ==
    IF accept_strings = <<>> THEN <<>>
    ELSE (IF re_search(Head(accept_strings), b) THEN <<b>> ELSE <<>>)
         \o accepted_copies(b, Tail(accept_strings))

\* new_branches: [branch for branch in branches for a_s in accept_strings if ...]
RECURSIVE new_branches(_, _)
new_branches(bs, accept_strings) ==
    IF bs = <<>> THEN <<>>
    ELSE accepted_copies(Head(bs), accept_strings) \o new_branches(Tail(bs), accept_strings)

\* the branches considered: restricted by accept_re_list unless loose
eligible_branches(out, p, loose) ==
    IF has_option(p, GIT_SECT, GIT_ACCEPT_RE_LIST) /\ ~loose
    THEN new_branches(branches_of(out, p),
                      str_split(parser_get(p, GIT_SECT, GIT_ACCEPT_RE_LIST), ","))
    ELSE branches_of(out, p)

\* match_branches: the eligible branches that contain branch_no
get_match_branches(branch_no, out, p, loose) ==
    LET has(b) == Contains(b, branch_no)
    IN  SelectSeq(eligible_branches(out, p, loose), has)

-----------------------------------------------------------------------------
(* getconf.py *)

\* validate_section
validate_section(sect_name, p) ==
    IF sect_name \notin sections(p)
    THEN Raised(Error("there is no section in the config file", <<sect_name>>))
    ELSE Returned(<<>>)

\* validate_item
validate_item(sect_name, item_name, p) ==
    IF ~validate_section(sect_name, p).ok THEN validate_section(sect_name, p)
    ELSE IF ~has_option(p, sect_name, item_name)
    THEN Raised(Error("there is no item in section in the config file",
                      <<item_name, sect_name>>))
    ELSE IF get_raises(p, sect_name, item_name)
    THEN Raised(Error("InterpolationSyntaxError", <<item_name, sect_name>>))
    ELSE Returned(parser_get(p, sect_name, item_name))

\* the names of S as output lines, one each (the model keeps no file order)
RECURSIVE PrintNames(_)
PrintNames(S) ==
    IF S = {} THEN <<>>
    ELSE LET n == CHOOSE x \in S : TRUE IN <<Line(n, <<>>)>> \o PrintNames(S \ {n})

\* the outcome of a handler or of main: the lines printed and the error raised, if any
Outcome(out, err) == [stdout |-> out, err |-> err]

\* arg_gd
arg_gd(a, home, p, ds, debug) ==
    LET r == get_git_dir(home, p, ds)
        dbg == IF debug THEN get_git_dir_debug(home, p, ds) ELSE <<>>
    IN  IF r.ok THEN Outcome(dbg \o <<Line("", r.val)>>, NoError) ELSE Outcome(dbg, r.err)

\* a mutant: the value is printed before the section and the item are validated
arg_cnf_print_first(a, home, p, ds, debug) ==
    LET r == validate_item(a[2], a[3], p)
    IN  IF r.ok THEN Outcome(<<Line("", str_strip(r.val))>>, NoError)
        ELSE Outcome(<<Line("", <<>>)>>, r.err)

\* arg_cnf
arg_cnf(a, home, p, ds, debug) ==
    LET r == validate_item(a[2], a[3], p)
    IN  IF r.ok THEN Outcome(<<Line("", str_strip(r.val))>>, NoError) ELSE Outcome(<<>>, r.err)

\* arg_sects
arg_sects(a, home, p, ds, debug) == Outcome(PrintNames(sections(p)), NoError)

\* arg_items
arg_items(a, home, p, ds, debug) ==
    LET r == validate_section(a[2], p)
    IN  IF r.ok THEN Outcome(PrintNames(DOMAIN p[a[2]]), NoError) ELSE Outcome(<<>>, r.err)

\* cmds: the number of arguments each command takes
cmds == [gd |-> 0, cnf |-> 2, sects |-> 0, items |-> 1]

\* main's try block; a is sys.argv[1:] with a leading -d taken off
getconf_try(a, cfg, home, ds, debug) ==
    LET loaded == get_config_file(cfg, FALSE)
        dbg == IF debug THEN get_config_file_debug(cfg) ELSE <<>>
        num_args == Len(a)
    IN  IF ~loaded.ok THEN Outcome(dbg, loaded.err)
        ELSE IF num_args = 0 THEN Outcome(dbg, Error("at least one argument expected", <<>>))
        ELSE IF a[1] \notin DOMAIN cmds THEN Outcome(dbg, Error("unknown argument", <<>>))
        ELSE IF cmds[a[1]] # num_args - 1
        THEN Outcome(dbg, Error("command takes arguments, not", <<a[1]>>))
        ELSE LET p == loaded.val
                 r == CASE a[1] = "gd" -> arg_gd(a, home, p, ds, debug)
                        [] a[1] = "cnf" -> arg_cnf(a, home, p, ds, debug)
                        [] a[1] = "sects" -> arg_sects(a, home, p, ds, debug)
                        [] a[1] = "items" -> arg_items(a, home, p, ds, debug)
             IN  Outcome(dbg \o r.stdout, r.err)

\* the script: -d is taken off and turns debugging on (set_debug prints), main runs,
\* any exception ends in fail(str(e)), which exits 1
getconf_main(a, cfg, home, ds) ==
    LET debug == Len(a) > 0 /\ a[1] = "-d"
        rest == IF debug THEN Tail(a) ELSE a
        r == getconf_try(rest, cfg, home, ds, debug)
    IN  [stdout |-> (IF debug THEN <<Line("Debugging enabled", <<>>)>> ELSE <<>>) \o r.stdout,
         reason |-> r.err,
         exit_val |-> IF r.err.msg = "" THEN 0 ELSE 1]

-----------------------------------------------------------------------------
(* Values shared by the specifications *)

NotExited == -1

NoArgs == [branch_no |-> <<>>, dir_name |-> <<>>, loose |-> FALSE]
NoParser == <<>>
NoCfgFile == [kind |-> "missing", sects |-> <<>>]

\* the variables of a cnb run, at rest
NoCnb ==
    /\ args = NoArgs /\ git_stdout = <<>> /\ dir_path_name = <<>>
    /\ target = "absent" /\ cwd = "start" /\ match_branches = <<>> /\ opt_chr = <<>>
    /\ branch_name = <<>> /\ reads = 0 /\ reply = <<>> /\ prompts = 0 /\ log = <<>>

NoGetconf == argv = <<>>

\* a configuration with just a git section
GitParser(git) == [s \in {GIT_SECT} |-> git]

URL == <<"u">>
HOME == <<"/", "h">>
REPO == <<"r">>

-----------------------------------------------------------------------------
(* cnb.py: main (lines 383-425), fail (lines 101-117) and the steps they run *)

world == <<args, argv, home_dir, cfgfile, dirs, git_stdout>>
norm == <<branch, strip_prefix, normalized>>

\* an entry of the log
Op(op, ok) == [op |-> op, ok |-> ok]

\* at dir_path there is nothing ("absent"), a file, or a directory: one that was
\* there before the run, the one the run made, or that one with the clone in it;
\* Path(dir).is_dir() accepts the directories
DirKinds == {"dir_pre", "dir_new", "dir_cloned"}

\* the exit codes git ends with in the model: success and a failure
GitResults == {0, 128}

MaxReplies == 2

\* the lines the user may type
Replies == {<<>>, <<"0">>, <<"1">>, <<"y">>, <<"n">>, <<"0", "1">>}

\* what reading standard input gives: a line, or the end of the input (EOFError)
InputEvents == {[eof |-> FALSE, line |-> l] : l \in Replies} \cup {[eof |-> TRUE, line |-> <<>>]}

\* main's except clauses calling fail(str(e), git_dir, dir_path_name): the message goes
\* to stderr; the deletion prompt is entered if git_dir and dir are non-empty and dir is
\* a directory, otherwise fail exits at once
Fail(err, gd, dpn, tgt) ==
    /\ reason' = err
    /\ IF gd # <<>> /\ dpn # <<>> /\ tgt \in DirKinds
       THEN pc' = "DeletePrompt" /\ opt_chr' = <<"n", "y">> /\ exit_val' = exit_val
       ELSE pc' = "exited" /\ opt_chr' = opt_chr /\ exit_val' = 1

LoadConfig ==
    /\ pc = "LoadConfig"
    /\ LET r == get_config_file(cfgfile, TRUE)
       IN  /\ log' = Append(log, Op("LoadConfig", r.ok))
           /\ IF r.ok
              THEN parser' = r.val /\ pc' = "ResolveGitDir"
                   /\ UNCHANGED <<reason, opt_chr, exit_val>>
              ELSE parser' = parser /\ Fail(r.err, git_dir, dir_path_name, target)
    /\ UNCHANGED <<world, norm, git_dir, dir_path_name, target, cwd, match_branches,
                   branch_name, reads, reply, prompts, stdout>>

ResolveGitDir ==
    /\ pc = "ResolveGitDir"
    /\ LET r == get_git_dir(home_dir, parser, dirs)
       IN  /\ log' = Append(log, Op("ResolveGitDir", r.ok))
           /\ IF r.ok
              THEN git_dir' = r.val /\ pc' = "ValidateTargetAbsent"
                   /\ UNCHANGED <<reason, opt_chr, exit_val>>
              ELSE git_dir' = git_dir /\ Fail(r.err, git_dir, dir_path_name, target)
    /\ UNCHANGED <<world, norm, parser, dir_path_name, target, cwd, match_branches,
                   branch_name, reads, reply, prompts, stdout>>

ValidateTargetAbsent ==
    /\ pc = "ValidateTargetAbsent"
    /\ LET dir_name == IF args.dir_name # <<>> THEN args.dir_name ELSE args.branch_no
           name == path_join(git_dir, dir_name)
       IN  /\ dir_path_name' = name
           /\ log' = Append(log, Op("ValidateTargetAbsent", target = "absent"))
           /\ IF target # "absent"
              THEN Fail(Error("something called exists. Remove it first!", name),
                        git_dir, name, target)
              ELSE pc' = "CreateTargetDir" /\ UNCHANGED <<reason, opt_chr, exit_val>>
    /\ UNCHANGED <<world, norm, parser, git_dir, target, cwd, match_branches,
                   branch_name, reads, reply, prompts, stdout>>

CreateTargetDir ==
    /\ pc = "CreateTargetDir"
    /\ \E ok \in BOOLEAN :
           /\ log' = Append(log, Op("CreateTargetDir", ok))
           /\ IF ok
              THEN target' = "dir_new" /\ pc' = "EnterTargetDir"
                   /\ UNCHANGED <<reason, opt_chr, exit_val>>
              ELSE target' = target
                   /\ Fail(Error("couldn't create", dir_path_name), git_dir, dir_path_name, target)
    /\ UNCHANGED <<world, norm, parser, git_dir, dir_path_name, cwd, match_branches,
                   branch_name, reads, reply, prompts, stdout>>

EnterTargetDir ==
    /\ pc = "EnterTargetDir"
    /\ \E ok \in BOOLEAN :
           /\ log' = Append(log, Op("EnterTargetDir", ok))
           /\ IF ok
              THEN cwd' = "target" /\ pc' = "Clone" /\ UNCHANGED <<reason, opt_chr, exit_val>>
              ELSE cwd' = cwd
                   /\ Fail(Error("couldn't cd to", dir_path_name), git_dir, dir_path_name, target)
    /\ UNCHANGED <<world, norm, parser, git_dir, dir_path_name, target, match_branches,
                   branch_name, reads, reply, prompts, stdout>>

\* clone_repo: git clone, then chdir(repo_dir)
Clone ==
    /\ pc = "Clone"
    /\ \E result \in GitResults, entered \in BOOLEAN :
           IF result # 0
           THEN /\ log' = Append(log, Op("Clone", FALSE))
                /\ target' = target /\ cwd' = cwd
                /\ Fail(Error("couldn't clone: error code",
                              parser_get(parser, GIT_SECT, GIT_REPO_URL)),
                        git_dir, dir_path_name, target)
           ELSE IF ~entered
           THEN /\ log' = log \o <<Op("Clone", TRUE), Op("CloneChdir", FALSE)>>
                /\ target' = "dir_cloned" /\ cwd' = cwd
                /\ Fail(Error("after cloning, couldn't chdir",
                              parser_get(parser, GIT_SECT, GIT_REPO_DIR)),
                        git_dir, dir_path_name, "dir_cloned")
           ELSE /\ log' = log \o <<Op("Clone", TRUE), Op("CloneChdir", TRUE)>>
                /\ target' = "dir_cloned" /\ cwd' = "repo"
                /\ pc' = "ResolveBranch" /\ UNCHANGED <<reason, opt_chr, exit_val>>
    /\ UNCHANGED <<world, norm, parser, git_dir, dir_path_name, match_branches,
                   branch_name, reads, reply, prompts, stdout>>

\* get_branch_name up to its return, its exception or its call of input_char
ResolveBranch ==
    /\ pc = "ResolveBranch"
    /\ IF InList(args.branch_no, passes(parser))
       THEN /\ branch_name' = <<args.branch_no>>
            /\ log' = Append(log, Op("ResolveBranch", TRUE))
            /\ pc' = "Checkout"
            /\ UNCHANGED <<match_branches, reason, opt_chr, exit_val>>
       ELSE \E result \in GitResults :
            IF result # 0
            THEN /\ log' = log \o <<Op("BranchList", FALSE), Op("ResolveBranch", FALSE)>>
                 /\ UNCHANGED <<match_branches, branch_name>>
                 /\ Fail(Error("couldn't clone the repo: error code", <<>>),
                         git_dir, dir_path_name, target)
            ELSE LET m == get_match_branches(args.branch_no, git_stdout, parser, args.loose)
                     num_matches == Len(m)
                 IN  /\ match_branches' = m
                     /\ IF num_matches = 0
                        THEN /\ log' = log \o <<Op("BranchList", TRUE), Op("ResolveBranch", FALSE)>>
                             /\ branch_name' = branch_name
                             /\ Fail(Error("couldn't find any branches matching", args.branch_no),
                                     git_dir, dir_path_name, target)
                        ELSE IF num_matches = 1
                        THEN /\ log' = log \o <<Op("BranchList", TRUE), Op("ResolveBranch", TRUE)>>
                             /\ branch_name' = <<m[1]>>
                             /\ pc' = "Checkout"
                             /\ UNCHANGED <<reason, opt_chr, exit_val>>
                        ELSE IF num_matches > Len(opt_str)
                        THEN /\ log' = log \o <<Op("BranchList", TRUE), Op("ResolveBranch", FALSE)>>
                             /\ branch_name' = branch_name
                             /\ Fail(Error("branches matching but our limit is",
                                           <<num_matches, Len(opt_str)>>),
                                     git_dir, dir_path_name, target)
                        ELSE /\ log' = Append(log, Op("BranchList", TRUE))
                             /\ branch_name' = branch_name
                             /\ pc' = "SelectBranch"
                             /\ opt_chr' = SubSeq(opt_str, 1, num_matches)
                             /\ UNCHANGED <<reason, exit_val>>
    /\ UNCHANGED <<world, norm, parser, git_dir, dir_path_name, target, cwd,
                   reads, reply, prompts, stdout>>

\* get_branch_name inside input_char(options, "Select branch: ", opt_str[:num_matches]):
\* the prompt is shown and one line is read
SelectBranch ==
    /\ pc = "SelectBranch"
    /\ \E ev \in InputEvents :
           /\ prompts' = prompts + 1
           /\ IF ev.eof
              THEN /\ UNCHANGED <<reads, reply, branch_name>>
                   /\ log' = Append(log, Op("ResolveBranch", FALSE))
                   /\ Fail(Error("Unexpected exception: EOF when reading a line", <<>>),
                           git_dir, dir_path_name, target)
              ELSE /\ reads < MaxReplies
                   /\ reads' = reads + 1
                   /\ reply' = ev.line
                   /\ LET index == input_char(opt_chr, ev.line)
                      IN  IF index >= 0
                          THEN /\ branch_name' = <<match_branches[index + 1]>>
                               /\ log' = Append(log, Op("ResolveBranch", TRUE))
                               /\ pc' = "Checkout"
                               /\ UNCHANGED <<reason, opt_chr, exit_val>>
                          ELSE UNCHANGED <<branch_name, log, pc, reason, opt_chr, exit_val>>
    /\ UNCHANGED <<world, norm, parser, git_dir, dir_path_name, target, cwd,
                   match_branches, stdout>>

\* a mutant: the result of git checkout is not looked at
checkout_succeeded_unchecked(result) == TRUE

\* checkout_branch's test of git's result (if result != 0: raise)
checkout_succeeded(result) == result = 0

\* checkout_branch
Checkout ==
    /\ pc = "Checkout"
    /\ \E result \in GitResults :
           /\ log' = Append(log, Op("Checkout", result = 0))
           /\ IF checkout_succeeded(result)
              THEN pc' = "Done" /\ UNCHANGED <<reason, opt_chr, exit_val>>
              ELSE Fail(Error("couldn't checkout: error code", branch_name[1]),
                        git_dir, dir_path_name, target)
    /\ UNCHANGED <<world, norm, parser, git_dir, dir_path_name, target, cwd,
                   match_branches, branch_name, reads, reply, prompts, stdout>>

\* print("All complete.") and the end of the script
Done ==
    /\ pc = "Done"
    /\ stdout' = Append(stdout, Line("All complete.", <<>>))
    /\ exit_val' = 0
    /\ pc' = "exited"
    /\ UNCHANGED <<world, norm, parser, git_dir, dir_path_name, target, cwd,
                   match_branches, opt_chr, branch_name, reads, reply, prompts, log,
                   reason>>

\* a mutant: any answer the prompt accepts deletes
delete_confirmed_by_any(index) == TRUE

\* fail's test of the answer, the index into "ny" (if input_char(...):)
delete_confirmed(index) == index # 0

\* fail inside input_char('', "Delete directory (y/n)? ", "ny"): one line is read; on
\* 'y' chdir(git_dir) and rmtree(dir), an exception of either being printed; then
\* sys.exit(1).  At the end of the input the EOFError leaves fail and ends the script
\* with Python's exit code for an uncaught exception, 1.
DeletePrompt ==
    /\ pc = "DeletePrompt"
    /\ \E ev \in InputEvents, moved \in BOOLEAN, removed \in BOOLEAN :
           /\ prompts' = prompts + 1
           /\ IF ev.eof
              THEN /\ UNCHANGED <<reads, reply, log, cwd, target>>
                   /\ pc' = "exited" /\ exit_val' = 1
              ELSE /\ reads < MaxReplies
                   /\ reads' = reads + 1
                   /\ reply' = ev.line
                   /\ LET index == input_char(opt_chr, ev.line)
                      IN  IF index < 0
                          THEN UNCHANGED <<log, cwd, target, pc, exit_val>>
                          ELSE IF ~delete_confirmed(index)
                          THEN /\ UNCHANGED <<log, cwd, target>>
                               /\ pc' = "exited" /\ exit_val' = 1
                          ELSE IF ~moved
                          THEN /\ log' = Append(log, Op("chdir_git", FALSE))
                               /\ UNCHANGED <<cwd, target>>
                               /\ pc' = "exited" /\ exit_val' = 1
                          ELSE /\ log' = log \o <<Op("chdir_git", TRUE), Op("rmtree", removed)>>
                               /\ cwd' = "git_dir"
                               /\ target' = IF removed THEN "absent" ELSE target
                               /\ pc' = "exited" /\ exit_val' = 1
    /\ UNCHANGED <<world, norm, parser, git_dir, dir_path_name, match_branches, opt_chr,
                   branch_name, stdout, reason>>

-----------------------------------------------------------------------------
(* Specification Spec: a run of cnb.py, from the start of main to the exit *)

\* building configurations: an option set to Absent is left out
Absent == <<"<absent>">>

GitConfig(dir, pass_branches, prefix, accept_re_list) ==
    LET all == [o \in {GIT_DIR, GIT_REPO_DIR, GIT_REPO_URL, GIT_PASS_BRANCHES,
                       GIT_STRIP_PREFIX, GIT_ACCEPT_RE_LIST} |->
                   CASE o = GIT_DIR -> dir
                     [] o = GIT_REPO_DIR -> REPO
                     [] o = GIT_REPO_URL -> URL
                     [] o = GIT_PASS_BRANCHES -> pass_branches
                     [] o = GIT_STRIP_PREFIX -> prefix
                     [] o = GIT_ACCEPT_RE_LIST -> accept_re_list]
    IN  GitParser([o \in {k \in DOMAIN all : all[k] # Absent} |-> all[o]])

PASS_BRANCHES == <<"r", ",", " ", "s">>
STRIP_PREFIX == <<"o", "/">>
ACCEPT_F_D == <<"f", ",", "d">>
ACCEPT_O == <<"o">>

HOME_GIT == <<"/", "h", "/", "g", "i", "t">>

MainArgs ==
    [branch_no : {MAIN, <<"d">>, <<"x">>}, dir_name : {<<>>, <<"w">>}, loose : BOOLEAN]

MainFiles ==
    { NoCfgFile,
      [kind |-> "ok", sects |-> GitParser([o \in {GIT_REPO_DIR} |-> REPO])],
      [kind |-> "ok", sects |-> GitConfig(<<"/", "w">>, Absent, Absent, Absent)],
      [kind |-> "ok", sects |-> GitConfig(Absent, PASS_BRANCHES, STRIP_PREFIX, ACCEPT_F_D)] }

MainDirs == {{}, {HOME_GIT}, {HOME_GIT, <<"/", "w">>}}

MainListings ==
    { <<>>,
      <<" ", " ", "d", "\n">>,
      <<"*", " ", "f", "d", "\n", " ", " ", "o", "/", "d", "\n">> }

Init ==
    /\ pc = "LoadConfig"
    /\ args \in MainArgs
    /\ cfgfile \in MainFiles
    /\ home_dir = HOME
    /\ dirs \in MainDirs
    /\ git_stdout \in MainListings
    /\ target \in {"absent", "file", "dir_pre"}
    /\ parser = NoParser /\ git_dir = <<>> /\ dir_path_name = <<>>
    /\ cwd = "start" /\ match_branches = <<>> /\ opt_chr = <<>> /\ branch_name = <<>>
    /\ reads = 0 /\ reply = <<>> /\ prompts = 0 /\ log = <<>> /\ stdout = <<>>
    /\ reason = NoError /\ exit_val = NotExited
    /\ NoGetconf /\ NoNormalize

Next ==
    \/ LoadConfig
    \/ ResolveGitDir
    \/ ValidateTargetAbsent
    \/ CreateTargetDir
    \/ EnterTargetDir
    \/ Clone
    \/ ResolveBranch
    \/ SelectBranch
    \/ Checkout
    \/ Done
    \/ DeletePrompt

Spec == Init /\ [][Next]_vars

-----------------------------------------------------------------------------
(* Specification SpecResolve: get_branch_name on every fragment, configuration, *)
(* loose flag and branch listing, from the state main calls it in (the clone    *)
(* made and entered).                                                           *)

MaxLines == 3
ManyBranches == 38

ListedLines ==
    { <<"*", " ", "f", "d">>, <<" ", " ", "o", "/", "f", "d">>, <<" ", " ", "o", "/", "d">>,
      <<" ", " ", "f">> }

\* what git prints for the lines: each followed by a line end
RECURSIVE Printed(_)
Printed(lines) ==
    IF lines = <<>> THEN <<>> ELSE Head(lines) \o <<"\n">> \o Printed(Tail(lines))

\* n different branch names holding "d"
ManyLines(n) ==
    [i \in 1..n |-> <<" ", " ", "d", opt_str[((i - 1) % Len(opt_str)) + 1],
                      opt_str[((i - 1) \div Len(opt_str)) + 1]>>]

Listings ==
    {Printed(l) : l \in StrUpTo(ListedLines, MaxLines)}
    \cup {Printed(ManyLines(n)) : n \in (Len(opt_str) - 1)..ManyBranches}

ResolveArgs ==
    [branch_no : {MAIN, <<"r">>, <<"d">>, <<"f", "d">>}, dir_name : {<<>>}, loose : BOOLEAN]

ResolveParsers ==
    { GitConfig(Absent, pb, sp, ar) :
        pb \in {Absent, PASS_BRANCHES}, sp \in {Absent, STRIP_PREFIX},
        ar \in {Absent, ACCEPT_F_D, ACCEPT_O} }

InitResolve ==
    /\ pc = "ResolveBranch"
    /\ args \in ResolveArgs
    /\ parser \in ResolveParsers
    /\ cfgfile = [kind |-> "ok", sects |-> parser]
    /\ git_stdout \in Listings
    /\ home_dir = HOME /\ dirs = {HOME_GIT}
    /\ git_dir = HOME_GIT /\ dir_path_name = path_join(HOME_GIT, args.branch_no)
    /\ target = "dir_cloned" /\ cwd = "repo"
    /\ log = <<Op("LoadConfig", TRUE), Op("ResolveGitDir", TRUE),
               Op("ValidateTargetAbsent", TRUE), Op("CreateTargetDir", TRUE),
               Op("EnterTargetDir", TRUE), Op("Clone", TRUE), Op("CloneChdir", TRUE)>>
    /\ match_branches = <<>> /\ opt_chr = <<>> /\ branch_name = <<>>
    /\ reads = 0 /\ reply = <<>> /\ prompts = 0 /\ stdout = <<>>
    /\ reason = NoError /\ exit_val = NotExited
    /\ NoGetconf /\ NoNormalize

NextResolve == ResolveBranch \/ SelectBranch

SpecResolve == InitResolve /\ [][NextResolve]_vars

-----------------------------------------------------------------------------
(* Specification SpecNormalize: the normalisation applied to every raw line and *)
(* strip prefix, once and then again to its own result.                         *)

InitNormalize ==
    /\ pc = "normalize"
    /\ branch \in RawLines
    /\ strip_prefix \in StripPrefixes
    /\ normalized = <<>>
    /\ NoCnb /\ NoGetconf
    /\ home_dir = <<>> /\ cfgfile = NoCfgFile /\ dirs = {} /\ parser = NoParser
    /\ git_dir = <<>> /\ stdout = <<>> /\ reason = NoError /\ exit_val = NotExited

Normalize ==
    /\ pc = "normalize"
    /\ LET once == normalize_branch(branch, strip_prefix)
       IN  normalized' = <<once, normalize_branch(once, strip_prefix)>>
    /\ pc' = "normalized"
    /\ UNCHANGED <<args, argv, home_dir, cfgfile, dirs, git_stdout, parser, git_dir,
                   dir_path_name, target, cwd, match_branches, opt_chr, branch_name,
                   reads, reply, prompts, log, stdout, reason, exit_val, branch, strip_prefix>>

NextNormalize == Normalize

SpecNormalize == InitNormalize /\ [][NextNormalize]_vars

-----------------------------------------------------------------------------
(* Specification SpecGitDir: get_git_dir applied to every home directory,       *)
(* configuration and set of existing directories.                               *)

Homes == {<<"/", "h">>, <<"/", "h", "/">>}

GitDirValues ==
    { <<"~", "/", "w">>, <<"~", "/", "w", "/">>, <<"/", "w">>, <<"/", "h", "/", "/", "w">>,
      <<"/", "%", "w">>, <<"~">>, <<>>, <<"~", "/", "~">> }

DirParsers ==
    { [s \in {"core"} |-> [o \in {GIT_DIR} |-> <<"/", "w">>]],
      GitParser([o \in {GIT_REPO_DIR, GIT_REPO_URL} |-> IF o = GIT_REPO_URL THEN URL ELSE REPO]) }
    \cup
    { GitParser([o \in {GIT_DIR, GIT_REPO_DIR, GIT_REPO_URL} |->
                    IF o = GIT_DIR THEN v ELSE IF o = GIT_REPO_URL THEN URL ELSE REPO])
      : v \in GitDirValues }

DirCandidates ==
    { <<"/", "h">>, <<"/", "h", "/", "g", "i", "t">>, <<"/", "h", "/", "w">>, <<"/", "w">>,
      <<".">>, <<"/", "h", "/", "/", "h">> }

InitGitDir ==
    /\ pc = "get_git_dir"
    /\ home_dir \in Homes
    /\ parser \in DirParsers
    /\ dirs \in SUBSET DirCandidates
    /\ git_dir = <<>> /\ reason = NoError
    /\ NoCnb /\ NoGetconf /\ NoNormalize
    /\ cfgfile = NoCfgFile /\ stdout = <<>> /\ exit_val = NotExited

CallGetGitDir ==
    /\ pc = "get_git_dir"
    /\ LET r == get_git_dir(home_dir, parser, dirs)
       IN  /\ pc' = IF r.ok THEN "returned" ELSE "raised"
           /\ git_dir' = r.val
           /\ reason' = r.err
    /\ UNCHANGED <<args, argv, home_dir, cfgfile, dirs, git_stdout, parser,
                   dir_path_name, target, cwd, match_branches, opt_chr, branch_name,
                   reads, reply, prompts, log, stdout, exit_val, branch, strip_prefix,
                   normalized>>

NextGitDir == CallGetGitDir

SpecGitDir == InitGitDir /\ [][NextGitDir]_vars

-----------------------------------------------------------------------------
(* Specification SpecGetconf: getconf.py run on every command line, against     *)
(* every configuration file and set of existing directories.                    *)

MaxArgs == 4

ArgWords == {"-d", "gd", "cnf", "sects", "items", "git", "dir", "x"}
CommandLines == StrUpTo(ArgWords, MaxArgs)

GetconfFiles ==
    { NoCfgFile,
      [kind |-> "corrupt", sects |-> <<>>],
      [kind |-> "ok",
       sects |-> GitParser([o \in {GIT_DIR, GIT_REPO_URL} |->
                               IF o = GIT_DIR THEN <<"/", "w">> ELSE URL])],
      [kind |-> "ok",
       sects |-> [sc \in {GIT_SECT, "x"} |->
                     IF sc = GIT_SECT THEN [o \in {GIT_REPO_URL} |-> URL]
                     ELSE [o \in {"x"} |-> <<"1">>]]],
      [kind |-> "ok",
       sects |-> GitParser([o \in {GIT_DIR} |-> <<"/", "%", "w">>])] }

GetconfDirs == {{}, {<<"/", "w">>}, {<<"/", "h", "/", "g", "i", "t">>}}

InitGetconf ==
    /\ pc = "getconf"
    /\ argv \in CommandLines
    /\ cfgfile \in GetconfFiles
    /\ home_dir = HOME
    /\ dirs \in GetconfDirs
    /\ stdout = <<>> /\ reason = NoError /\ exit_val = NotExited
    /\ NoCnb /\ NoNormalize
    /\ parser = NoParser /\ git_dir = <<>>

GetconfMain ==
    /\ pc = "getconf"
    /\ \E r \in {getconf_main(argv, cfgfile, home_dir, dirs)} :
           /\ stdout' = r.stdout
           /\ reason' = r.reason
           /\ exit_val' = r.exit_val
    /\ pc' = "exited"
    /\ UNCHANGED <<args, argv, home_dir, cfgfile, dirs, git_stdout, parser, git_dir,
                   dir_path_name, target, cwd, match_branches, opt_chr, branch_name,
                   reads, reply, prompts, log, branch, strip_prefix, normalized>>

NextGetconf == GetconfMain

SpecGetconf == InitGetconf /\ [][NextGetconf]_vars

-----------------------------------------------------------------------------
(* Properties of the normalisation (SpecNormalize) *)

\* how often prefix stands in s, overlapping occurrences counted
Occurrences(s, prefix) == Cardinality({i \in 0..Len(s) : OccursAt(s, prefix, i)})

\* s with every occurrence of a non-empty prefix removed, found left to right, the
\* search resuming after each removed occurrence
RECURSIVE RemoveEvery(_, _)
RemoveEvery(s, prefix) ==
    IF prefix = <<>> \/ ~Contains(s, prefix) THEN s
    ELSE LET at == CHOOSE i \in 0..Len(s) :
                       OccursAt(s, prefix, i) /\ \A j \in 0..(i - 1) : ~OccursAt(s, prefix, j)
         IN  SubSeq(s, 1, at) \o RemoveEvery(SubSeq(s, at + Len(prefix) + 1, Len(s)), prefix)

NotStar(c) == c # "*"

\* C7 as stated: the normalised name is the line with '*' removed, the FIRST occurrence
\* of the strip prefix removed and the whitespace around it trimmed, and normalising
\* the result again gives it back unchanged.
C7_FirstOccurrenceIdempotent ==
    pc = "normalized" =>
        /\ normalized[1] = str_strip(remove_first(SelectSeq(branch, NotStar), strip_prefix))
        /\ normalized[2] = normalized[1]

\* C7 amended: the normalised name is the line with every '*' removed, EVERY occurrence
\* of the strip prefix removed (left to right, not overlapping) and the whitespace
\* around it trimmed; that is the first-occurrence result whenever the prefix occurs
\* at most once in the star-free line; and normalising again gives the name back
\* exactly when the prefix is empty or does not occur in the normalised name.
C7_EveryOccurrence ==
    pc = "normalized" =>
        LET bare == SelectSeq(branch, NotStar)
        IN  /\ normalized[1] = str_strip(RemoveEvery(bare, strip_prefix))
            /\ Occurrences(bare, strip_prefix) <= 1
                   => normalized[1] = str_strip(remove_first(bare, strip_prefix))
            /\ (normalized[2] = normalized[1])
                   <=> (strip_prefix = <<>> \/ ~Contains(normalized[1], strip_prefix))

\* a line with a current-branch marker whose normalised name still holds the prefix
C7_Witness ==
    /\ pc = "normalized"
    /\ Contains(branch, <<"*">>)
    /\ strip_prefix # <<>>
    /\ Contains(normalized[1], strip_prefix)
    /\ normalized[2] # normalized[1]

-----------------------------------------------------------------------------
(* Properties of get_git_dir (SpecGitDir) *)

-----------------------------------------------------------------------------
(* Properties of getconf.py (SpecGetconf) *)

\* the command line without a leading -d
Command == IF Len(argv) > 0 /\ argv[1] = "-d" THEN Tail(argv) ELSE argv

Arity == [gd |-> 0, cnf |-> 2, sects |-> 0, items |-> 1]

\* the command line is well formed and the configuration file was read
WellFormed ==
    /\ cfgfile.kind = "ok"
    /\ Len(Command) > 0
    /\ Command[1] \in {"gd", "cnf", "sects", "items"}
    /\ Len(Command) - 1 = Arity[Command[1]]

\* a section or key named by cnf or items is absent from the configuration
NameAbsent ==
    /\ WellFormed
    /\ \/ Command[1] = "cnf" /\ (Command[2] \notin DOMAIN cfgfile.sects
                                 \/ Command[3] \notin DOMAIN cfgfile.sects[Command[2]])
       \/ Command[1] = "items" /\ Command[2] \notin DOMAIN cfgfile.sects

\* the git directory the configuration and the directories resolve to, if any
ConfiguredDir ==
    IF /\ GIT_SECT \in DOMAIN cfgfile.sects
       /\ GIT_DIR \in DOMAIN cfgfile.sects[GIT_SECT]
       /\ ~Contains(cfgfile.sects[GIT_SECT][GIT_DIR], <<"%">>)
       /\ path_str(str_replace(cfgfile.sects[GIT_SECT][GIT_DIR], <<"~">>, home_dir)) \in dirs
    THEN <<path_str(str_replace(cfgfile.sects[GIT_SECT][GIT_DIR], <<"~">>, home_dir))>>
    ELSE IF path_str(home_dir \o <<"/">> \o GIT) \in dirs
    THEN <<path_str(home_dir \o <<"/">> \o GIT)>>
    ELSE <<>>

\* gd finds no git directory, or the value cnf names cannot be read
HandlerFails ==
    /\ WellFormed /\ ~NameAbsent
    /\ \/ Command[1] = "gd" /\ ConfiguredDir = <<>>
       \/ Command[1] = "cnf"
          /\ Contains(cfgfile.sects[Command[2]][Command[3]], <<"%">>)

DebugTexts ==
    {"Debugging enabled", "No configuration file", "Could not read",
     "Hmmm - can't get a git dir from the config file",
     "We got git path from the config file, but it",
     "doesn't exist, so we'll try for the default place."}

NotDebug(l) == l.msg \notin DebugTexts

\* the result the command prints
ResultPrinted(out) ==
    CASE Command[1] = "gd" -> out = <<Line("", ConfiguredDir[1])>>
      [] Command[1] = "cnf" ->
            out = <<Line("", str_strip(cfgfile.sects[Command[2]][Command[3]]))>>
      [] Command[1] = "sects" ->
            /\ {out[i].msg : i \in 1..Len(out)} = DOMAIN cfgfile.sects
            /\ Len(out) = Cardinality(DOMAIN cfgfile.sects)
      [] Command[1] = "items" ->
            /\ {out[i].msg : i \in 1..Len(out)} = DOMAIN cfgfile.sects[Command[2]]
            /\ Len(out) = Cardinality(DOMAIN cfgfile.sects[Command[2]])

-----------------------------------------------------------------------------
(* Properties of get_branch_name (SpecResolve) *)

InLog(entry) == \E i \in 1..Len(log) : log[i] = entry
Attempted(op) == \E i \in 1..Len(log) : log[i].op = op

\* the allow-list in force: configured and not loose
Restricted == /\ GIT_ACCEPT_RE_LIST \in DOMAIN parser[GIT_SECT]
              /\ ~args.loose

AllowList == str_split(parser[GIT_SECT][GIT_ACCEPT_RE_LIST], ",")

MatchesAllowList(b) == \E i \in 1..Len(AllowList) : Contains(b, AllowList[i])

HoldsFragment(b) == Contains(b, args.branch_no)

\* the Branch Candidate List: the normalised lines, each once, restricted to those
\* matching at least one allow-list pattern when the allow-list is in force
Candidates ==
    IF Restricted THEN SelectSeq(branches_of(git_stdout, parser), MatchesAllowList)
    ELSE branches_of(git_stdout, parser)

\* the Match Set: the candidates that hold the fragment, in order
MatchSet == SelectSeq(Candidates, HoldsFragment)

\* C2 as stated: the matches get_branch_name computes are exactly the candidates that
\* hold the fragment, in the listing's order, each as often as it is listed; a branch
\* matching several allow-list patterns is retained once.
C2_MatchSet == InLog(Op("BranchList", TRUE)) => match_branches = MatchSet

\* a listing where the allow-list is in force and one branch matches two patterns
C2_Witness ==
    /\ InLog(Op("BranchList", TRUE))
    /\ Restricted
    /\ Len(match_branches) > Len(MatchSet)

FatalNoMatch == "couldn't find any branches matching"
FatalTooMany == "branches matching but our limit is"

\* C3 as stated: with the number n of listed branches that match, n = 1 returns that
\* branch with no prompt; n = 0 is a fatal error naming the fragment; n > 36 is a fatal
\* error naming the count and the limit 36; 2 <= n <= 36 leads to the prompt and never
\* to one of these fatal errors.
C3_Decision ==
    InLog(Op("BranchList", TRUE)) =>
        LET n == Len(MatchSet)
        IN  /\ n = 1 => /\ prompts = 0 /\ pc = "Checkout"
                        /\ branch_name = <<MatchSet[1]>>
            /\ n = 0 => /\ reason.msg = FatalNoMatch
                        /\ reason.detail = args.branch_no
            /\ n > 36 => /\ reason.msg = FatalTooMany
                         /\ reason.detail = <<n, 36>>
            /\ (n >= 2 /\ n <= 36) => /\ reason.msg \notin {FatalNoMatch, FatalTooMany}
                                      /\ pc = "SelectBranch" \/ prompts > 0

\* exactly one listed branch matches, and the prompt is shown all the same
C3_Witness ==
    /\ InLog(Op("BranchList", TRUE))
    /\ Len(MatchSet) = 1
    /\ pc = "SelectBranch"

\* the pass-through names: "main", "master" and the pieces of pass_branches
PassThrough ==
    {MAIN, MASTER} \cup
    (IF GIT_PASS_BRANCHES \in DOMAIN parser[GIT_SECT]
     THEN LET pieces == re_split_W(parser[GIT_SECT][GIT_PASS_BRANCHES])
          IN  {pieces[i] : i \in 1..Len(pieces)}
     ELSE {})

Offered == {opt_str[i] : i \in 1..Len(match_branches)}

\* C6: while a branch is being selected the options are the first num_matches characters
\* of the alphabet; a line read that is empty, longer than one character or not an
\* offered character leaves the selection waiting, with a new prompt and only that line
\* consumed; a line that is one offered character returns the match listed against
\* it, a member of the matches; and the selection returns on no other step.
C6_Selection ==
    /\ [](pc = "SelectBranch" =>
            /\ Len(match_branches) >= 2 /\ Len(match_branches) <= Len(opt_str)
            /\ opt_chr = SubSeq(opt_str, 1, Len(match_branches)))
    /\ [][pc = "SelectBranch" =>
            /\ reads' \in {reads, reads + 1}
            /\ prompts' = prompts + 1
            /\ pc' = "Checkout" => reads' = reads + 1
            /\ reads' = reads + 1 =>
                   IF Len(reply') = 1 /\ reply'[1] \in Offered
                   THEN /\ pc' = "Checkout"
                        /\ branch_name' =
                               <<match_branches[CHOOSE i \in 1..Len(opt_str) :
                                                    opt_str[i] = reply'[1]]>>
                        /\ \E j \in 1..Len(match_branches) : match_branches[j] = branch_name'[1]
                   ELSE /\ pc' = "SelectBranch"
                        /\ branch_name' = <<>>
                        /\ UNCHANGED <<match_branches, opt_chr, reason, exit_val>>]_vars

\* a second line, the first having been refused, selects the second match
C6_Witness ==
    /\ pc = "Checkout"
    /\ reads = 2 /\ prompts = 2
    /\ reply = <<"1">>
    /\ Len(match_branches) >= 2
    /\ branch_name = <<match_branches[2]>>

-----------------------------------------------------------------------------
(* Properties of a run of cnb.py (Spec) *)

\* the steps of main and the operations inside them, in the order of the code; the
\* branch listing is skipped for a pass-through name
Rank ==
    [LoadConfig |-> 1, ResolveGitDir |-> 2, ValidateTargetAbsent |-> 3,
     CreateTargetDir |-> 4, EnterTargetDir |-> 5, Clone |-> 6, CloneChdir |-> 7,
     BranchList |-> 8, ResolveBranch |-> 9, Checkout |-> 10, chdir_git |-> 11,
     rmtree |-> 12]

Succeeded(op) == InLog(Op(op, TRUE))

\* the operation a step adds to the log, "" when it adds none
Added(old, new, k) == IF Len(new) >= Len(old) + k THEN new[Len(old) + k].op ELSE ""

AllSucceeded ==
    \A op \in {"LoadConfig", "ResolveGitDir", "ValidateTargetAbsent", "CreateTargetDir",
               "EnterTargetDir", "Clone", "CloneChdir", "ResolveBranch", "Checkout"} :
        Succeeded(op)

Completed == \E i \in 1..Len(stdout) : stdout[i].msg = "All complete."

\* C1: the steps are attempted in the order LoadConfig, ResolveGitDir,
\* ValidateTargetAbsent, CreateTargetDir, EnterTargetDir, Clone, ResolveBranch, Checkout,
\* each only after every earlier one succeeded; git clone runs in the target directory,
\* git branch -a and git checkout in the clone, checkout with a resolved branch name;
\* after the first failure no later operation is performed, the run goes to cleanup and
\* exits 1; the completion message and exit code 0 come only when all steps succeeded.
C1_StepOrder ==
    /\ [](/\ \A i, j \in 1..Len(log) : i < j => Rank[log[i].op] < Rank[log[j].op]
          /\ \A j \in 1..Len(log) :
                 Rank[log[j].op] \in 2..10 =>
                     \A r \in 1..(Rank[log[j].op] - 1) :
                         \/ r = 8
                         \/ \E i \in 1..(j - 1) : Rank[log[i].op] = r /\ log[i].ok
                         \/ r = 9 /\ Rank[log[j].op] = 9
          /\ \A i, j \in 1..Len(log) :
                 (i < j /\ ~log[i].ok /\ Rank[log[j].op] <= 10)
                     => log[i].op = "BranchList" /\ log[j] = Op("ResolveBranch", FALSE)
          /\ (\E i \in 1..Len(log) : Rank[log[i].op] <= 10 /\ ~log[i].ok)
                 <=> reason.msg # ""
          /\ reason.msg # "" => /\ pc \in {"DeletePrompt", "exited"}
                                /\ ~Completed
                                /\ pc = "exited" => exit_val = 1
          /\ pc = "exited" <=> exit_val \in {0, 1}
          /\ exit_val = 0 <=> Completed
          /\ Completed => AllSucceeded /\ branch_name # <<>>)
    /\ [][/\ Added(log, log', 1) = "Clone" => cwd = "target"
          /\ Added(log, log', 1) = "BranchList" => cwd = "repo"
          /\ Added(log, log', 1) = "Checkout" => cwd = "repo" /\ branch_name # <<>>
          /\ reason.msg # "" =>
                 /\ Added(log, log', 1) \in {"", "chdir_git"}
                 /\ pc' \in {"DeletePrompt", "exited"}]_vars

\* a run in which every step succeeded, the branches having been listed
C1_Witness ==
    /\ pc = "exited" /\ exit_val = 0
    /\ Succeeded("BranchList") /\ AllSucceeded
    /\ Completed

\* C5: on a failure the deletion prompt is entered exactly when the git directory and
\* the target path are known and the target is a directory; the target is removed only
\* on the answer 'y', after the working directory was changed to the git directory; on
\* 'n', or without the prompt, nothing is removed and the working directory stays; the
\* process then exits with code 1.
C5_Cleanup ==
    /\ [](/\ pc = "DeletePrompt" =>
                 /\ reason.msg # "" /\ git_dir # <<>> /\ dir_path_name # <<>>
                 /\ target \in DirKinds
          /\ \A i \in 1..Len(log) :
                 log[i].op = "rmtree" => i > 1 /\ log[i - 1] = Op("chdir_git", TRUE)
          /\ (pc = "exited" /\ reason.msg # "") => exit_val = 1)
    /\ [][/\ (reason.msg = "" /\ reason'.msg # "") =>
                 IF git_dir' # <<>> /\ dir_path_name' # <<>> /\ target' \in DirKinds
                 THEN pc' = "DeletePrompt"
                 ELSE /\ pc' = "exited" /\ exit_val' = 1
                      /\ target' = target /\ cwd' = cwd
          /\ (target \in DirKinds /\ target' = "absent") =>
                 /\ pc = "DeletePrompt"
                 /\ reads' = reads + 1 /\ reply' = <<"y">>
                 /\ cwd' = "git_dir"
                 /\ log' = log \o <<Op("chdir_git", TRUE), Op("rmtree", TRUE)>>
          /\ pc = "DeletePrompt" =>
                 /\ (cwd' # cwd \/ Len(log') > Len(log))
                        => reads' = reads + 1 /\ reply' = <<"y">>
                 /\ (reads' = reads + 1 /\ reply' = <<"n">>)
                        => /\ target' = target /\ cwd' = cwd /\ log' = log
                           /\ pc' = "exited"
                 /\ pc' \in {"DeletePrompt", "exited"}
                 /\ pc' = "exited" => exit_val' = 1]_vars

\* the target directory this run created and cloned into, removed on the answer 'y'
C5_Witness ==
    /\ pc = "exited" /\ exit_val = 1
    /\ reply = <<"y">>
    /\ Succeeded("Clone")
    /\ Succeeded("chdir_git") /\ Succeeded("rmtree")
    /\ cwd = "git_dir" /\ target = "absent"

\* C10 as stated: only a target directory this run created is offered for deletion or
\* deleted; when the run fails because something already exists at the target path,
\* that is not offered for deletion and is still there at the exit.
C10_OnlyOwnDirectory ==
    /\ pc = "DeletePrompt" => Succeeded("CreateTargetDir")
    /\ Attempted("rmtree") => Succeeded("CreateTargetDir")
    /\ InLog(Op("ValidateTargetAbsent", FALSE)) =>
           /\ pc # "DeletePrompt"
           /\ target # "absent"

\* a directory that existed before the run, removed by the run's cleanup
C10_Witness ==
    /\ pc = "exited"
    /\ InLog(Op("ValidateTargetAbsent", FALSE))
    /\ ~Attempted("CreateTargetDir")
    /\ Succeeded("rmtree")
    /\ target = "absent"

====
